---- MODULE Spec2Model ----
(***************************************************************************)
(* Model of the hashtag monitor: the polling scheduler of                  *)
(* twitter_bot.py (TwitterHashtagMonitor.run and what it calls), the       *)
(* account pool manager of twitter_auth.py (TwitterAuth.get_api and what   *)
(* it calls), the document store they share (models.py) and the Disable    *)
(* button of the dashboard (streamlit_dasboard.py).                        *)
(*                                                                         *)
(* Time is counted in whole hours since an epoch that starts a calendar    *)
(* day; a timestamp t lies on day t \div DayHours.                         *)
(***************************************************************************)
EXTENDS Integers, Sequences, FiniteSets, TLC

\* ------------------------------------------------------------------ bounds

\* The clock value of the initial state, and how far the clock may advance.
InitialNow == 192
MaxElapsed == 1
\* Size of the burst of posts the platform can serve for one day.
BurstSize == 20
\* Largest number of posts in an ordinary (non-burst) search response.
MaxBatch == 2
\* How many runs of detect_flagged_accounts may be aborted by a store error.
MaxAborts == 1
\* The resolution of run()'s time measurements (ticks in one second), and by
\* how many ticks a cycle's processing may exceed the poll interval.
TicksPerSecond == 2
MaxOverrun == 3

\* ------------------------------------------------------- program constants

max_login_attempts == 3
login_retry_delay == 10
poll_interval == 120
retries == 3
FlagThreshold == 2
SurgeThreshold == 20
WindowHours == 1
DayHours == 24
SurgeWindowDays == 7

\* ------------------------------------------------------------ configuration

\* The accounts of db.twitter_accounts, in the order find() returns them.
AccountOrder == <<"u1", "u2">>

RECURSIVE SeqToSet(_)
SeqToSet(s) == IF s = <<>> THEN {} ELSE {Head(s)} \cup SeqToSet(Tail(s))

Usernames == SeqToSet(AccountOrder)

\* The active campaigns, in the order find({"active": True}) returns them,
\* and each campaign's configured hashtag groups.
Campaigns == <<1, 2>>

PairXY == <<"x", "y">>
PairXZ == <<"x", "z">>

HashtagPairs(c) == IF c = 1 THEN <<PairXY, PairXZ>> ELSE <<PairXZ>>

\* --------------------------------------------------------------- platform

\* What the platform holds for each post URL.  URLs 1..6 are single posts:
\* 1 by A and 2 by B at the initial hour (2 also tagged z), 3 and 4 by B one
\* hour earlier (the day before), 5 by A more than seven days earlier, 6 by
\* A two days earlier.  URLs above BurstBase are a burst at the initial hour
\* by alternating authors.
BurstBase == 100
BurstUrls == (BurstBase + 1)..(BurstBase + BurstSize)
SingleUrls == 1..6
Urls == SingleUrls \cup BurstUrls

TweetUser(u) ==
    IF u \in BurstUrls THEN (IF u % 2 = 0 THEN "A" ELSE "B")
    ELSE IF u \in {1, 5, 6} THEN "A" ELSE "B"

TweetDate(u) ==
    CASE u \in BurstUrls -> InitialNow
      [] u \in {1, 2}    -> InitialNow
      [] u \in {3, 4}    -> InitialNow - 1
      [] u = 6           -> InitialNow - 2 * DayHours
      [] OTHER           -> InitialNow - (SurgeWindowDays * DayHours + 1)

TweetHashtags(u) == IF u = 2 THEN {"x", "y", "z"} ELSE {"x", "y"}

\* The record search_hashtag_pairs builds from one tweet.
TweetRecord(u) ==
    [url |-> u, username |-> TweetUser(u), hashtags |-> TweetHashtags(u),
     timestamp |-> TweetDate(u)]

\* lastOp when the last step completed no handler of the data path.
NoOp == [op |-> "none", campaign |-> 0, matched |-> {}, repeat |-> FALSE,
         errors |-> {},
         delay |-> 0]

VARIABLES
    \* ---- the document store
    is_active,          \* twitter_accounts: username -> is_active
    posts,              \* posts collection: a set of documents
    flagged_accounts,   \* flagged_accounts collection: a set of documents
    hashtag_activity,   \* hashtag_activity collection: a set of documents
    account_doc,        \* twitter_accounts: username -> the document's cookies,
                        \* added_at, last_used and disabled_at (0: no value, or
                        \* one older than the run)
    \* ---- TwitterAuth
    pool,               \* the usernames held by self.pool (AccountsPool)
    auth_failed,        \* TwitterAuth.failed_accounts
    gaPc,               \* position inside get_api ("idle": not running)
    gaExclude,          \* get_api's exclude_accounts argument
    gaPreferred,        \* get_api's preferred_accounts argument
    gaQueue,            \* accounts still to be logged in by the running loop
    attempt,            \* _get_cookies_via_selenium's attempt number
    \* ---- TwitterHashtagMonitor
    pc,                 \* position inside run()
    api,                \* self.api: "None" or "API" (a client over self.pool)
    failed_accounts,    \* TwitterHashtagMonitor.failed_accounts
    used_accounts,      \* TwitterHashtagMonitor.used_accounts
    cIdx,               \* index into the campaign list of the cycle
    pIdx,               \* index into the campaign's hashtag groups
    sAttempt,           \* search attempt number for the group (range(retries))
    all_tweets,         \* search_hashtag_pairs' all_tweets
    inserted_count,     \* what store_tweets has just returned (dropped by
                        \* monitor_campaign, 0 once the next step has run)
    \* ---- environment
    now,                \* the clock (datetime.utcnow()), in hours
    feed,               \* the responses the search client can give
    \* ---- history (what happened, for stating properties)
    gaSweep,            \* the running/last acquisition ran the reactivation sweep
    gaAttempted,        \* usernames a login was attempted for in it
    gaSucceeded,        \* usernames whose login succeeded in it
    gaLoginFailed,      \* usernames whose login failed for good in it
    gaDelayed,          \* the fixed delay of the reactivation path has elapsed
    gaLoginAfterDelay,  \* a login was attempted after that delay
    gaActiveAtRead,     \* the active accounts get_api read at its start
    gaReturned,         \* the last acquisition has returned its client
    monitored,          \* campaigns monitor_campaign was called for in the
                        \* cycle's for loop (forgotten after the loop)
    raisedIn,           \* campaigns whose monitor_campaign raised in it
    aborts,             \* how many detect_flagged_accounts runs were aborted
    addedSinceCheck,    \* add_account has written an account's added_at
                        \* since the last check_for_new_accounts
    cleanDetect,        \* campaigns with a completed detect_flagged_accounts
                        \* run and no post inserted for them since
    lastOp,             \* the operation the last step completed (or the
                        \* cause of the login attempt that failed in it): its
                        \* name and campaign, the ids its window query matched,
                        \* whether the campaign was in cleanDetect before it,
                        \* the batch positions whose insert raised
    \* ---- run()'s timing
    processing_time,    \* time.time() - start_time, in ticks
    sleep_time          \* <<the seconds run() has just slept>>, or <<>> once
                        \* the next iteration has begun

storeVars == <<is_active, posts, flagged_accounts, hashtag_activity, account_doc>>
authVars == <<pool, auth_failed, gaPc, gaExclude, gaPreferred, gaQueue, attempt>>
botVars == <<pc, api, failed_accounts, used_accounts, cIdx, pIdx, sAttempt,
             all_tweets, inserted_count>>
envVars == <<now, feed>>
gaHist == <<gaSweep, gaAttempted, gaSucceeded, gaLoginFailed, gaDelayed,
            gaLoginAfterDelay, gaActiveAtRead, gaReturned>>
histVars == <<gaHist, monitored, raisedIn, aborts, cleanDetect, addedSinceCheck,
              lastOp>>
timeVars == <<processing_time, sleep_time>>
vars == <<storeVars, authVars, botVars, envVars, histVars, timeVars>>


\* ======================================================================
\*                       TwitterAuth (twitter_auth.py)
\* ======================================================================

\* get_active_accounts: the active accounts, in the store's order.
ActiveAccounts == SelectSeq(AccountOrder, LAMBDA u : is_active[u])

\* get_api's filter: drop the excluded accounts (when any are given).
ExcludeFilter(accs, excl) ==
    IF excl # {} THEN SelectSeq(accs, LAMBDA u : u \notin excl) ELSE accs

\* get_api's partition: preferred accounts first, then the others.
PreferredFirst(accs, pref) ==
    IF pref # {}
    THEN SelectSeq(accs, LAMBDA u : u \in pref) \o SelectSeq(accs, LAMBDA u : u \notin pref)
    ELSE accs

\* The accounts get_api's loop logs in, in order.
Candidates(accs, excl, pref) == PreferredFirst(ExcludeFilter(accs, excl), pref)

\* reactivate_all_accounts: every inactive account becomes active.
ReactivateAll == [u \in Usernames |-> TRUE]

\* Mutant: the account is left as it is stored.
Disabled_Skipped(u) == is_active

\* disable_account.
Disabled(u) == [is_active EXCEPT ![u] = FALSE]

\* add_account's upsert after a successful login ($set is_active: True).
Upserted(u) == [is_active EXCEPT ![u] = TRUE]

\* The fields of an account's document before anything has written them.
NoFields == [cookies |-> 0, added_at |-> 0, last_used |-> 0, disabled_at |-> 0]

\* add_account's upsert after a login at time t: the cookies of that login
\* (named by its time), added_at and last_used.
LoginFields(doc, t) == [doc EXCEPT !.cookies = t, !.added_at = t, !.last_used = t]

\* disable_account at time t: disabled_at.
DisableFields(doc, t) == [doc EXCEPT !.disabled_at = t]

\* add_account on a successful login: pool.delete_accounts, pool.add_account.
PoolAfterAddAccount(u) == (pool \ {u}) \cup {u}

\* initialize_accounts on a successful login: pool.add_account.
PoolAfterInitialize(u) == pool \cup {u}

\* Mutant: the account that ran out of attempts is not recorded.
FailedAfterMaxAttempts_Dropped(u) == auth_failed

\* _get_cookies_via_selenium after the last failed attempt.
FailedAfterMaxAttempts(u) == auth_failed \cup {u}

\* How one run of the login flow can end: with the session cookies, with the
\* platform rejecting the credential (the "incorrect" message, then no
\* auth_token/ct0 cookie: ValueError), or with a WebDriverWait timing out.
LoginOutcomes == {"ok", "credential_rejected", "timeout"}

\* Mutant: one attempt too many (<= for <).
RetryLogin_OffByOne(n) == n <= max_login_attempts

\* Whether a failed attempt is followed by another one.
RetryLogin(n) == n < max_login_attempts

\* Mutant: the same wait after every failed attempt.
RetryDelay_Constant(n) == login_retry_delay

\* The seconds slept after failed attempt n that is followed by another one:
\* retry_delay = self.login_retry_delay * attempt.
RetryDelay(n) == login_retry_delay * n

\* A caller enters get_api(exclude_accounts, preferred_accounts).
CallGetApi(excl, pref) ==
    /\ gaPc' = "read"
    /\ gaExclude' = excl
    /\ gaPreferred' = pref
    /\ gaQueue' = <<>>
    /\ attempt' = 1
    /\ gaSweep' = FALSE
    /\ gaAttempted' = {}
    /\ gaSucceeded' = {}
    /\ gaLoginFailed' = {}
    /\ gaDelayed' = FALSE
    /\ gaLoginAfterDelay' = FALSE
    /\ gaActiveAtRead' = {}
    /\ gaReturned' = FALSE
    /\ UNCHANGED <<pool, auth_failed>>

\* The position of get_api's login loop once its queue is q.
LoopPc(q) == IF q = <<>> THEN "login_all" ELSE "add_account"

\* Mutant: a login that failed for good breaks get_api's loop off.
AfterFailedLogin_Aborts(q) == "login_all"

\* get_api's loop after add_account has failed for an account (add_account
\* catches the exception and returns False; the loop's own try would catch
\* anything else): on with the rest of the queue.
AfterFailedLogin(q) == LoopPc(q)

\* get_api, first statement: read the active accounts; with none, go to the
\* reactivation path, otherwise filter and order the candidates.
GetApiRead ==
    /\ gaPc = "read"
    /\ gaActiveAtRead' = SeqToSet(ActiveAccounts)
    /\ IF ActiveAccounts = <<>>
       THEN /\ gaPc' = "reactivate"
            /\ gaQueue' = <<>>
       ELSE /\ gaQueue' = Candidates(ActiveAccounts, gaExclude, gaPreferred)
            /\ gaPc' = LoopPc(gaQueue')
    /\ attempt' = 1
    /\ UNCHANGED <<storeVars, pool, auth_failed, gaExclude, gaPreferred, botVars,
                   envVars, gaSweep, gaAttempted, gaSucceeded, gaLoginFailed,
                   gaDelayed, gaLoginAfterDelay, gaReturned, monitored, raisedIn, cleanDetect, aborts, addedSinceCheck>>
    /\ lastOp' = NoOp
    /\ UNCHANGED timeVars

\* get_api with no active account: reactivate_all_accounts().
GetApiReactivate ==
    /\ gaPc = "reactivate"
    /\ is_active' = ReactivateAll
    /\ gaSweep' = TRUE
    /\ gaPc' = "initialize_accounts"
    /\ UNCHANGED <<posts, flagged_accounts, hashtag_activity, account_doc, pool, auth_failed,
                   gaExclude, gaPreferred, gaQueue, attempt, botVars, envVars,
                   gaAttempted, gaSucceeded, gaLoginFailed, gaDelayed,
                   gaLoginAfterDelay, gaActiveAtRead, gaReturned, monitored, raisedIn, cleanDetect, aborts, addedSinceCheck>>
    /\ lastOp' = NoOp
    /\ UNCHANGED timeVars

\* initialize_accounts, up to its loop: reactivate again, read the active accounts.
InitializeAccountsBegin ==
    /\ gaPc = "initialize_accounts"
    /\ is_active' = ReactivateAll
    /\ gaQueue' = SelectSeq(AccountOrder, LAMBDA u : ReactivateAll[u])
    /\ gaPc' = IF gaQueue' = <<>> THEN "delay" ELSE "init_login"
    /\ attempt' = 1
    /\ UNCHANGED <<posts, flagged_accounts, hashtag_activity, account_doc, pool, auth_failed,
                   gaExclude, gaPreferred, botVars, envVars, gaHist, monitored,
                   raisedIn, cleanDetect, aborts, addedSinceCheck>>
    /\ lastOp' = NoOp
    /\ UNCHANGED timeVars

\* One login attempt (_get_cookies_via_selenium) made by initialize_accounts'
\* loop for the head of the queue.  A success adds the account to the pool; a
\* failure is retried up to max_login_attempts, then recorded in
\* TwitterAuth.failed_accounts; the exception is caught by the loop.
InitializeLogin ==
    /\ gaPc = "init_login"
    /\ gaQueue # <<>>
    /\ LET u == Head(gaQueue)
           rest == Tail(gaQueue)
       IN /\ gaAttempted' = gaAttempted \cup {u}
          /\ gaLoginAfterDelay' = (gaLoginAfterDelay \/ gaDelayed)
          /\ \E outcome \in LoginOutcomes :
               IF outcome = "ok"
               THEN /\ pool' = PoolAfterInitialize(u)
                    /\ gaSucceeded' = gaSucceeded \cup {u}
                    /\ gaQueue' = rest
                    /\ attempt' = 1
                    /\ gaPc' = IF rest = <<>> THEN "delay" ELSE "init_login"
                    /\ lastOp' = NoOp
                    /\ UNCHANGED <<auth_failed, gaLoginFailed>>
               ELSE IF RetryLogin(attempt)
               THEN /\ attempt' = attempt + 1
                    /\ lastOp' = [NoOp EXCEPT !.op = outcome,
                                              !.delay = RetryDelay(attempt)]
                    /\ UNCHANGED <<pool, auth_failed, gaSucceeded, gaLoginFailed,
                                   gaQueue, gaPc>>
               ELSE /\ auth_failed' = FailedAfterMaxAttempts(u)
                    /\ gaLoginFailed' = gaLoginFailed \cup {u}
                    /\ gaQueue' = rest
                    /\ attempt' = 1
                    /\ gaPc' = IF rest = <<>> THEN "delay" ELSE "init_login"
                    /\ lastOp' = [NoOp EXCEPT !.op = outcome]
                    /\ UNCHANGED <<pool, gaSucceeded>>
    /\ UNCHANGED <<storeVars, gaExclude, gaPreferred, botVars, envVars, gaSweep,
                   gaDelayed, gaActiveAtRead, gaReturned, monitored, raisedIn, cleanDetect, aborts, addedSinceCheck>>
    /\ UNCHANGED timeVars

\* get_api after initialize_accounts: asyncio.sleep(10).  active_accounts is
\* still the empty list read at the start, so the filters and the login loop
\* that follow have nothing to do.
GetApiDelay ==
    /\ gaPc = "delay"
    /\ gaDelayed' = TRUE
    /\ gaQueue' = Candidates(<<>>, gaExclude, gaPreferred)
    /\ gaPc' = LoopPc(gaQueue')
    /\ UNCHANGED <<storeVars, pool, auth_failed, gaExclude, gaPreferred, attempt,
                   botVars, envVars, gaSweep, gaAttempted, gaSucceeded,
                   gaLoginFailed, gaLoginAfterDelay, gaActiveAtRead, gaReturned, monitored,
                   raisedIn, cleanDetect, aborts, addedSinceCheck>>
    /\ lastOp' = NoOp
    /\ UNCHANGED timeVars

\* One login attempt made by add_account for the head of get_api's queue.
\* A success replaces the account in the pool and upserts it as active; a
\* failure is retried up to max_login_attempts, then recorded in
\* TwitterAuth.failed_accounts and the account is disabled.
AddAccountLogin ==
    /\ gaPc = "add_account"
    /\ gaQueue # <<>>
    /\ LET u == Head(gaQueue)
           rest == Tail(gaQueue)
       IN /\ gaAttempted' = gaAttempted \cup {u}
          /\ gaLoginAfterDelay' = (gaLoginAfterDelay \/ gaDelayed)
          /\ \E outcome \in LoginOutcomes :
               IF outcome = "ok"
               THEN /\ pool' = PoolAfterAddAccount(u)
                    /\ is_active' = Upserted(u)
                    /\ account_doc' = [account_doc EXCEPT ![u] = LoginFields(@, now)]
                    /\ addedSinceCheck' = TRUE
                    /\ gaSucceeded' = gaSucceeded \cup {u}
                    /\ gaQueue' = rest
                    /\ attempt' = 1
                    /\ gaPc' = LoopPc(rest)
                    /\ lastOp' = NoOp
                    /\ UNCHANGED <<auth_failed, gaLoginFailed>>
               ELSE IF RetryLogin(attempt)
               THEN /\ attempt' = attempt + 1
                    /\ lastOp' = [NoOp EXCEPT !.op = outcome,
                                              !.delay = RetryDelay(attempt)]
                    /\ UNCHANGED <<is_active, account_doc, addedSinceCheck, pool,
                                   auth_failed, gaSucceeded, gaLoginFailed,
                                   gaQueue, gaPc>>
               ELSE /\ auth_failed' = FailedAfterMaxAttempts(u)
                    /\ is_active' = Disabled(u)
                    /\ account_doc' = [account_doc EXCEPT ![u] = DisableFields(@, now)]
                    /\ UNCHANGED addedSinceCheck
                    /\ gaLoginFailed' = gaLoginFailed \cup {u}
                    /\ gaQueue' = rest
                    /\ attempt' = 1
                    /\ gaPc' = AfterFailedLogin(rest)
                    /\ lastOp' = [NoOp EXCEPT !.op = outcome]
                    /\ UNCHANGED <<pool, gaSucceeded>>
    /\ UNCHANGED <<posts, flagged_accounts, hashtag_activity, gaExclude,
                   gaPreferred, botVars, envVars, gaSweep, gaDelayed,
                   gaActiveAtRead, gaReturned, monitored, raisedIn, cleanDetect, aborts>>
    /\ UNCHANGED timeVars


\* ======================================================================
\*                 the document store and the detectors
\* ======================================================================

Min(S) == CHOOSE x \in S : \A y \in S : x <= y
Max(S) == CHOOSE x \in S : \A y \in S : x >= y

\* Mutant: posts without its unique index on url.
UrlTaken_NoIndex(ps, url) == FALSE

\* The unique index on posts.url: an insert of a stored URL is rejected.
UrlTaken(ps, url) == \E p \in ps : p.url = url

\* Mutant: an insert of a stored URL replaces the stored document.
InsertOne_Replaces(ps, t, c) ==
    {p \in ps : p.url # t.url}
    \cup {[id |-> t.url, url |-> t.url, campaign_id |-> c,
            username |-> t.username, hashtags |-> t.hashtags,
            timestamp |-> t.timestamp, processed |-> FALSE]}

\* insert_one of one tweet into posts ps for campaign c: the new collection.
\* A duplicate URL raises DuplicateKeyError, which store_tweets swallows.
\* The _id the store assigns to a document is represented by its URL (the
\* unique index makes the two correspond one to one).
InsertOne(ps, t, c) ==
    IF UrlTaken(ps, t.url)
    THEN ps
    ELSE ps \cup {[id |-> t.url, url |-> t.url, campaign_id |-> c,
                   username |-> t.username, hashtags |-> t.hashtags,
                   timestamp |-> t.timestamp, processed |-> FALSE]}

\* Mutant: another storage error ends the loop (the batch is abandoned).
RECURSIVE StoreLoop_Aborts(_, _, _, _, _, _)
StoreLoop_Aborts(ps, tweets, c, count, bad, i) ==
    IF tweets = <<>> \/ i \in bad
    THEN [posts |-> ps, inserted_count |-> count]
    ELSE LET after == InsertOne(ps, Head(tweets), c)
         IN StoreLoop_Aborts(after, Tail(tweets), c,
                             IF UrlTaken(ps, Head(tweets).url) THEN count ELSE count + 1,
                             bad, i + 1)

\* store_tweets' loop over the batch, from its i-th tweet on: the collection
\* and the inserted count.  bad holds the positions of the batch whose
\* insert_one raises an error other than DuplicateKeyError: it is logged,
\* nothing is stored or counted for the tweet, and the loop goes on.
RECURSIVE StoreLoop(_, _, _, _, _, _)
StoreLoop(ps, tweets, c, count, bad, i) ==
    IF tweets = <<>>
    THEN [posts |-> ps, inserted_count |-> count]
    ELSE IF i \in bad
    THEN StoreLoop(ps, Tail(tweets), c, count, bad, i + 1)
    ELSE LET after == InsertOne(ps, Head(tweets), c)
         IN StoreLoop(after, Tail(tweets), c,
                      IF UrlTaken(ps, Head(tweets).url) THEN count ELSE count + 1,
                      bad, i + 1)

\* detect_flagged_accounts' first $match: the campaign's unprocessed posts
\* of the trailing hour.
\* Mutant: the window query without its campaign_id condition.
WindowMatch_AnyCampaign(ps, c, t) ==
    {p \in ps : p.timestamp >= t - WindowHours /\ ~p.processed}

WindowMatch(ps, c, t) ==
    {p \in ps : p.campaign_id = c /\ p.timestamp >= t - WindowHours /\ ~p.processed}

\* The $group by username, followed by the $match on post_count.
AuthorGroup(matched, a) == {p \in matched : p.username = a}

\* Mutant: a threshold of one post.
Qualifies_One(group) == Cardinality(group) >= 1

Qualifies(group) == Cardinality(group) >= FlagThreshold

FlaggedGroups(matched) ==
    {a \in {p.username : p \in matched} : Qualifies(AuthorGroup(matched, a))}

\* Mutant: every detection inserts a record (no filter on username and
\* campaign_id, no unique index).
UpsertFlagged_AlwaysInserts(fa, a, c, group) ==
    fa \cup {[username |-> a, campaign_id |-> c,
              first_detected |-> Min({p.timestamp : p \in group}),
              last_detected |-> Max({p.timestamp : p \in group}),
              post_count |-> Cardinality(group), posts |-> {p.id : p \in group}]}

\* Mutant: a repeated detection overwrites the record's count and posts
\* ($set for $inc and $addToSet).
UpsertFlagged_Overwrites(fa, a, c, group) ==
    LET old == {r \in fa : r.username = a /\ r.campaign_id = c}
        first_post == Min({p.timestamp : p \in group})
    IN (fa \ old)
       \cup {[username |-> a, campaign_id |-> c,
               first_detected |-> IF old = {} THEN first_post
                                  ELSE (CHOOSE r \in old : TRUE).first_detected,
               last_detected |-> Max({p.timestamp : p \in group}),
               post_count |-> Cardinality(group),
               posts |-> {p.id : p \in group}]}

\* update_one(..., upsert=True) on flagged_accounts for one aggregated author.
UpsertFlagged(fa, a, c, group) ==
    LET ids == {p.id : p \in group}
        first_post == Min({p.timestamp : p \in group})
        last_post == Max({p.timestamp : p \in group})
        old == {r \in fa : r.username = a /\ r.campaign_id = c}
    IN IF old = {}
       THEN fa \cup {[username |-> a, campaign_id |-> c,
                      first_detected |-> first_post, last_detected |-> last_post,
                      post_count |-> Cardinality(group), posts |-> ids]}
       ELSE LET r == CHOOSE x \in old : TRUE
            IN (fa \ {r}) \cup
               {[r EXCEPT !.last_detected = last_post,
                          !.post_count = @ + Cardinality(group),
                          !.posts = @ \cup ids]}

\* The loop over the aggregation's result, for the authors in todo.
RECURSIVE UpsertAll(_, _, _, _)
UpsertAll(fa, todo, c, matched) ==
    IF todo = {}
    THEN fa
    ELSE LET a == CHOOSE x \in todo : TRUE
         IN UpsertAll(UpsertFlagged(fa, a, c, AuthorGroup(matched, a)),
                      todo \ {a}, c, matched)

\* Mutant: no post is marked processed.
MarkProcessed_None(ps, c) == ps

\* Mutant: only the posts of the qualifying authors are marked processed.
MarkProcessed_QualifyingOnly(ps, c) ==
    {IF /\ p.campaign_id = c
        /\ ~p.processed
        /\ Cardinality({q \in ps : /\ q.campaign_id = c
                                   /\ ~q.processed
                                   /\ q.username = p.username}) >= FlagThreshold
     THEN [p EXCEPT !.processed = TRUE] ELSE p
       : p \in ps}

\* update_many({"campaign_id": c, "processed": False}, {"$set": {"processed": True}}).
MarkProcessed(ps, c) ==
    {IF p.campaign_id = c /\ ~p.processed THEN [p EXCEPT !.processed = TRUE] ELSE p
       : p \in ps}

\* $dateToString "%Y-%m-%d": the calendar day of a timestamp.
DayOf(t) == t \div DayHours

\* $all: the document's hashtags contain every tag of the pair.
HasAll(hashtags, pair) == \A i \in 1..Len(pair) : pair[i] \in hashtags

\* detect_activity_surges' $match for one pair.
SurgeMatch(ps, c, pair, t) ==
    {p \in ps : /\ p.campaign_id = c
                /\ HasAll(p.hashtags, pair)
                /\ p.timestamp >= t - SurgeWindowDays * DayHours}

\* The $group by day: one entry per day that has a matched post.
DayEntry(matched, d) ==
    LET on == {p \in matched : DayOf(p.timestamp) = d}
    IN [day |-> d, post_count |-> Cardinality(on),
        unique_accounts |-> {p.username : p \in on}]

\* Mutant: the series has an entry for every calendar day between its
\* first and its last day.
SeriesDays_EveryDay(matched) ==
    IF matched = {} THEN {}
    ELSE Min({p.timestamp \div DayHours : p \in matched})
            ..Max({p.timestamp \div DayHours : p \in matched})

\* The sorted series as the set of its entries' days (ascending by day).
SeriesDays(matched) == {DayOf(p.timestamp) : p \in matched}

\* Mutant: the rule without its condition on the previous entry.
SurgeRule_NoPrevious(previous_day, current_day) ==
    current_day.post_count >= SurgeThreshold

\* The surge rule on the newest two entries of the series.
SurgeRule(previous_day, current_day) ==
    previous_day.post_count = 0 /\ current_day.post_count >= SurgeThreshold

\* The upsert of one surge record keyed by (campaign, pair, date).
UpsertActivity(ha, c, pair, cur) ==
    {r \in ha : ~(r.campaign_id = c /\ r.hashtag_pair = pair /\ r.date = cur.day)}
    \cup {[campaign_id |-> c, hashtag_pair |-> pair, date |-> cur.day,
           post_count |-> cur.post_count,
           unique_accounts |-> Cardinality(cur.unique_accounts),
           is_surge |-> TRUE]}

\* pair_activity[-1] and pair_activity[-2]: the days of the newest entry of
\* the series and of the entry before it.
CurrentDay(days) == Max(days)
PreviousDay(days) == Max(days \ {Max(days)})

\* The body of detect_activity_surges' loop for one pair.
SurgeStep(ha, ps, c, pair, t) ==
    LET matched == SurgeMatch(ps, c, pair, t)
        days == SeriesDays(matched)
    IN IF Cardinality(days) >= 2
       THEN LET cur == CurrentDay(days)
                prev == PreviousDay(days)
            IN IF SurgeRule(DayEntry(matched, prev), DayEntry(matched, cur))
               THEN UpsertActivity(ha, c, pair, DayEntry(matched, cur))
               ELSE ha
       ELSE ha

\* detect_activity_surges' loop over the campaign's pairs.
RECURSIVE SurgeLoop(_, _, _, _, _)
SurgeLoop(ha, ps, c, pairs, t) ==
    IF pairs = <<>>
    THEN ha
    ELSE SurgeLoop(SurgeStep(ha, ps, c, Head(pairs), t), ps, c, Tail(pairs), t)


\* ======================================================================
\*                 TwitterHashtagMonitor (twitter_bot.py)
\* ======================================================================

RECURSIVE SortedSeq(_)
SortedSeq(S) == IF S = {} THEN <<>> ELSE <<Min(S)>> \o SortedSeq(S \ {Min(S)})

BurstPage == SortedSeq(BurstUrls)

\* The responses the search client may give: every page of at most MaxBatch
\* of the given single posts, and the whole burst.
Pages(S) == {SortedSeq(T) : T \in {X \in SUBSET S : Cardinality(X) <= MaxBatch}}

\* self.api.search(query): a response all of whose posts carry the pair's
\* tags and exist at the time of the search.
SearchResults(pair) ==
    {pg \in feed : \A i \in 1..Len(pg) :
                      HasAll(TweetHashtags(pg[i]), pair) /\ TweetDate(pg[i]) <= now}

\* The list of tweet records built from a response.
RECURSIVE Records(_)
Records(pg) == IF pg = <<>> THEN <<>> ELSE <<TweetRecord(Head(pg))>> \o Records(Tail(pg))

Campaign == Campaigns[cIdx]

\* run(): the for loop calls monitor_campaign for campaign number i.
StartCampaign(i) ==
    /\ pc' = "search"
    /\ cIdx' = i
    /\ pIdx' = 1
    /\ sAttempt' = 0
    /\ all_tweets' = <<>>
    /\ monitored' = monitored \cup {Campaigns[i]}

\* run(): monitor_campaign is over for the current campaign; the for loop goes
\* on to the next campaign, or ends.
EndCampaign ==
    IF cIdx < Len(Campaigns)
    THEN StartCampaign(cIdx + 1)
    ELSE /\ pc' = "retry_failed"
         /\ cIdx' = 1
         /\ pIdx' = 1
         /\ sAttempt' = 0
         /\ all_tweets' = <<>>
         /\ UNCHANGED monitored

\* Mutant: run() without the try around monitor_campaign; the exception
\* reaches the top-level handler.
CampaignHandler_Propagates ==
    /\ pc' = "recovering"
    /\ UNCHANGED <<cIdx, pIdx, sAttempt, all_tweets, monitored>>

\* run(): the handler of an exception raised by monitor_campaign (log it and
\* go on with the for loop).
CampaignHandler == EndCampaign

\* monitor_campaign raises for the current campaign.
CampaignError ==
    /\ raisedIn' = raisedIn \cup {Campaign}
    /\ CampaignHandler

\* Mutant: monitor_campaign goes on to store_tweets as soon as a pair has
\* given tweets, leaving the pairs that follow unsearched.
EndPair_StoresEarly(tweets) ==
    IF tweets # <<>>
    THEN /\ pc' = "store"
         /\ pIdx' = 1
         /\ sAttempt' = 0
         /\ all_tweets' = tweets
         /\ UNCHANGED <<cIdx, monitored>>
    ELSE IF pIdx < Len(HashtagPairs(Campaign))
    THEN /\ pc' = "search"
         /\ pIdx' = pIdx + 1
         /\ sAttempt' = 0
         /\ all_tweets' = tweets
         /\ UNCHANGED <<cIdx, monitored>>
    ELSE EndCampaign

\* search_hashtag_pairs: the attempts for the current pair are over, with
\* all_tweets now being tweets.  With the last pair done monitor_campaign goes
\* on: to store_tweets when tweets is not empty, else it returns.
EndPair(tweets) ==
    IF pIdx < Len(HashtagPairs(Campaign))
    THEN /\ pc' = "search"
         /\ pIdx' = pIdx + 1
         /\ sAttempt' = 0
         /\ all_tweets' = tweets
         /\ UNCHANGED <<cIdx, monitored>>
    ELSE IF tweets # <<>>
    THEN /\ pc' = "store"
         /\ pIdx' = 1
         /\ sAttempt' = 0
         /\ all_tweets' = tweets
         /\ UNCHANGED <<cIdx, monitored>>
    ELSE EndCampaign

\* The variables the control operators above determine.
ctl == <<pc, cIdx, pIdx, sAttempt, all_tweets, monitored>>

\* No acquisition is running: get_api's frame is gone (its arguments and the
\* history of the last acquisition are forgotten).
NoCall ==
    /\ gaExclude' = {}
    /\ gaPreferred' = {}
    /\ gaSweep' = FALSE
    /\ gaAttempted' = {}
    /\ gaSucceeded' = {}
    /\ gaLoginFailed' = {}
    /\ gaDelayed' = FALSE
    /\ gaLoginAfterDelay' = FALSE
    /\ gaActiveAtRead' = {}
    /\ gaReturned' = FALSE
    /\ UNCHANGED <<pool, auth_failed, gaPc, gaQueue, attempt>>

\* run(), before the loop: await self.initialize_api().
InitializeApi ==
    /\ pc = "init_api"
    /\ gaPc = "idle"
    /\ CallGetApi(used_accounts, {})
    /\ UNCHANGED <<storeVars, botVars, envVars, monitored, raisedIn, cleanDetect, aborts, addedSinceCheck>>
    /\ lastOp' = NoOp
    /\ UNCHANGED timeVars

\* check_for_new_accounts when its query finds nothing: the accounts
\* collection (which no operation of the program writes; the account
\* documents are in twitter_accounts) holds no document with created_at later
\* than the last check.  The result of that query is an input.
CheckNoNewAccounts ==
    /\ pc = "check_accounts"
    /\ gaPc = "idle"
    /\ pc' = "get_campaigns"
    /\ addedSinceCheck' = FALSE
    /\ NoCall
    /\ UNCHANGED <<storeVars, api, failed_accounts, used_accounts, cIdx, pIdx,
                   sAttempt, all_tweets, inserted_count, envVars, monitored,
                   raisedIn, cleanDetect, aborts>>
    /\ lastOp' = NoOp
    /\ sleep_time' = <<>>
    /\ UNCHANGED processing_time

\* check_for_new_accounts when the accounts collection holds a document
\* created since the last check: clear both sets and initialize_api().
CheckNewAccounts ==
    /\ pc = "check_accounts"
    /\ gaPc = "idle"
    /\ failed_accounts' = {}
    /\ used_accounts' = {}
    /\ addedSinceCheck' = FALSE
    /\ CallGetApi({}, {})
    /\ UNCHANGED <<storeVars, pc, api, cIdx, pIdx, sAttempt, all_tweets,
                   inserted_count, envVars, monitored, raisedIn, cleanDetect, aborts>>
    /\ lastOp' = NoOp
    /\ sleep_time' = <<>>
    /\ UNCHANGED processing_time

\* run(): get_active_campaigns(), then the for loop starts.
GetActiveCampaigns ==
    /\ pc = "get_campaigns"
    /\ raisedIn' = {}
    /\ pc' = "search"
    /\ cIdx' = 1
    /\ pIdx' = 1
    /\ sAttempt' = 0
    /\ all_tweets' = <<>>
    /\ monitored' = {Campaigns[1]}
    /\ NoCall
    /\ UNCHANGED <<storeVars, api, failed_accounts, used_accounts, inserted_count,
                   envVars, cleanDetect, aborts, addedSinceCheck>>
    /\ lastOp' = NoOp
    /\ processing_time' = 0
    /\ UNCHANGED sleep_time

\* run(): a store query of check_for_new_accounts or get_active_campaigns
\* raises; the top-level handler takes over.
TopLevelRaise ==
    /\ pc \in {"check_accounts", "get_campaigns"}
    /\ gaPc = "idle"
    /\ pc' = "recovering"
    /\ NoCall
    /\ UNCHANGED <<storeVars, api, failed_accounts, used_accounts, cIdx, pIdx,
                   sAttempt, all_tweets, inserted_count, envVars, monitored,
                   raisedIn, cleanDetect, aborts, addedSinceCheck>>
    /\ lastOp' = NoOp
    /\ sleep_time' = <<>>
    /\ UNCHANGED processing_time

\* search_hashtag_pairs: the search for the current pair returns a response.
SearchOk ==
    /\ pc = "search"
    /\ gaPc = "idle"
    /\ api = "API"
    /\ pool # {}
    /\ \E pg \in SearchResults(HashtagPairs(Campaign)[pIdx]) :
          EndPair(all_tweets \o Records(pg))
    /\ NoCall
    /\ UNCHANGED <<storeVars, api, failed_accounts, used_accounts, inserted_count,
                   envVars, raisedIn, cleanDetect, aborts, addedSinceCheck>>
    /\ lastOp' = NoOp
    /\ UNCHANGED timeVars

\* search_hashtag_pairs: the search raises "No account available for queue";
\* self.api.username names an account of the client, which goes to both sets,
\* and the pool is re-acquired excluding the used accounts.
SearchExhausted ==
    /\ pc = "search"
    /\ gaPc = "idle"
    /\ api = "API"
    /\ \E u \in pool :
          /\ used_accounts' = used_accounts \cup {u}
          /\ failed_accounts' = failed_accounts \cup {u}
          /\ CallGetApi(used_accounts', {})
    /\ UNCHANGED <<storeVars, pc, api, cIdx, pIdx, sAttempt, all_tweets,
                   inserted_count, envVars, monitored, raisedIn, cleanDetect, aborts, addedSinceCheck>>
    /\ lastOp' = NoOp
    /\ UNCHANGED timeVars

\* search_hashtag_pairs: the search raises "No account available for queue"
\* and the handler itself raises (self.api has no attribute username); the
\* exception leaves monitor_campaign.
SearchHandlerRaises ==
    /\ pc = "search"
    /\ gaPc = "idle"
    /\ api = "API"
    /\ CampaignError
    /\ NoCall
    /\ UNCHANGED <<storeVars, api, failed_accounts, used_accounts, inserted_count,
                   envVars, cleanDetect, aborts, addedSinceCheck>>
    /\ lastOp' = NoOp
    /\ UNCHANGED timeVars

\* Mutant: the handler of another error goes on with the attempts for the
\* pair (continue for break).
OtherErrorLeaves_Continue(tweets) ==
    IF sAttempt + 1 < retries
    THEN /\ sAttempt' = sAttempt + 1
         /\ UNCHANGED <<pc, cIdx, pIdx, all_tweets, monitored>>
    ELSE EndPair(tweets)

\* search_hashtag_pairs' handler of another error: log, sleep(10), break.
OtherErrorLeaves(tweets) == EndPair(tweets)

\* search_hashtag_pairs: the search raises any other error; the pair is left.
SearchError ==
    /\ pc = "search"
    /\ gaPc = "idle"
    /\ api = "API"
    /\ OtherErrorLeaves(all_tweets)
    /\ NoCall
    /\ UNCHANGED <<storeVars, api, failed_accounts, used_accounts, inserted_count,
                   envVars, raisedIn, cleanDetect, aborts, addedSinceCheck>>
    /\ lastOp' = [NoOp EXCEPT !.op = "search_error", !.campaign = Campaign]
    /\ UNCHANGED timeVars

\* monitor_campaign: store_tweets(campaign_id, tweets), with the inserts at
\* the positions bad of the batch failing with another storage error.
StoreTweetsWith(bad) ==
    /\ pc = "store"
    /\ LET res == StoreLoop(posts, all_tweets, Campaign, 0, bad, 1)
       IN /\ posts' = res.posts
          /\ inserted_count' = res.inserted_count
          /\ cleanDetect' = IF res.inserted_count > 0
                            THEN cleanDetect \ {Campaign} ELSE cleanDetect
    /\ pc' = "detect_flagged"
    /\ all_tweets' = <<>>
    /\ lastOp' = [NoOp EXCEPT !.op = "store_tweets", !.campaign = Campaign,
                              !.errors = bad]
    /\ NoCall
    /\ UNCHANGED <<is_active, account_doc, flagged_accounts, hashtag_activity, api,
                   failed_accounts, used_accounts, cIdx, pIdx, sAttempt, envVars,
                   monitored, raisedIn, aborts, addedSinceCheck>>
    /\ UNCHANGED timeVars

\* store_tweets when the store accepts or rejects as duplicate every insert.
StoreTweets == StoreTweetsWith({})

\* store_tweets when some inserts of the batch fail with another error.
StoreTweetsError ==
    \E bad \in (SUBSET (1..Len(all_tweets))) \ {{}} : StoreTweetsWith(bad)

\* monitor_campaign: detect_flagged_accounts(campaign_id) runs to its end.
DetectFlaggedAccounts ==
    /\ pc = "detect_flagged"
    /\ LET matched == WindowMatch(posts, Campaign, now)
       IN flagged_accounts' =
             UpsertAll(flagged_accounts, FlaggedGroups(matched), Campaign, matched)
    /\ posts' = MarkProcessed(posts, Campaign)
    /\ pc' = "detect_surges"
    /\ cleanDetect' = cleanDetect \cup {Campaign}
    /\ lastOp' = [NoOp EXCEPT !.op = "detect_flagged_accounts",
                              !.campaign = Campaign,
                              !.matched = {p.id : p \in WindowMatch(posts, Campaign, now)},
                              !.repeat = Campaign \in cleanDetect]
    /\ NoCall
    /\ inserted_count' = 0
    /\ UNCHANGED <<is_active, account_doc, hashtag_activity, api, failed_accounts, used_accounts,
                   cIdx, pIdx, sAttempt, all_tweets, envVars, monitored, raisedIn,
                   aborts, addedSinceCheck>>
    /\ UNCHANGED timeVars

\* detect_flagged_accounts raises part-way (a store error): some of the
\* upserts are done, no post is marked processed; the exception leaves
\* monitor_campaign.
DetectFlaggedRaises ==
    /\ pc = "detect_flagged"
    /\ aborts < MaxAborts
    /\ aborts' = aborts + 1
    /\ LET matched == WindowMatch(posts, Campaign, now)
       IN \E done \in SUBSET FlaggedGroups(matched) :
             flagged_accounts' = UpsertAll(flagged_accounts, done, Campaign, matched)
    /\ CampaignError
    /\ cleanDetect' = cleanDetect \ {Campaign}
    /\ lastOp' = [NoOp EXCEPT !.op = "aborted", !.campaign = Campaign]
    /\ NoCall
    /\ inserted_count' = 0
    /\ UNCHANGED <<is_active, account_doc, posts, hashtag_activity, api, failed_accounts,
                   used_accounts, envVars, addedSinceCheck>>
    /\ UNCHANGED timeVars

\* monitor_campaign: detect_activity_surges(campaign_id).
DetectActivitySurges ==
    /\ pc = "detect_surges"
    /\ hashtag_activity' =
          SurgeLoop(hashtag_activity, posts, Campaign, HashtagPairs(Campaign), now)
    /\ EndCampaign
    /\ lastOp' = [NoOp EXCEPT !.op = "detect_activity_surges", !.campaign = Campaign,
                              !.matched = UNION {{p.id : p \in SurgeMatch(posts, Campaign,
                                                            HashtagPairs(Campaign)[k], now)} :
                                                 k \in 1..Len(HashtagPairs(Campaign))}]
    /\ NoCall
    /\ UNCHANGED <<is_active, account_doc, posts, flagged_accounts, api, failed_accounts,
                   used_accounts, inserted_count, envVars, raisedIn, cleanDetect, aborts, addedSinceCheck>>
    /\ UNCHANGED timeVars

\* retry_failed_accounts.
RetryFailedAccounts ==
    /\ pc = "retry_failed"
    /\ gaPc = "idle"
    /\ IF failed_accounts # {}
       THEN /\ used_accounts' = {}
            /\ CallGetApi({}, failed_accounts)
            /\ UNCHANGED pc
       ELSE /\ pc' = "sleep"
            /\ NoCall
            /\ UNCHANGED used_accounts
    /\ monitored' = {}
    /\ raisedIn' = {}
    /\ UNCHANGED <<storeVars, api, failed_accounts, cIdx, pIdx, sAttempt,
                   all_tweets, inserted_count, envVars, cleanDetect, aborts, addedSinceCheck>>
    /\ lastOp' = NoOp
    /\ UNCHANGED timeVars

\* int() of a time of t ticks: its whole seconds, truncated toward zero.
IntSeconds(t) ==
    IF t >= 0 THEN t \div TicksPerSecond ELSE -((-t) \div TicksPerSecond)

\* sleep_time = max(0, int(self.poll_interval - processing_time)), in seconds,
\* for a processing time of pt ticks.
SleepTime(pt) == Max({0, IntSeconds(poll_interval * TicksPerSecond - pt)})

\* The cycle's processing (a search, a store operation) takes time.
Work ==
    /\ pc \in {"search", "retry_failed"}
    /\ gaPc = "idle"
    /\ processing_time < poll_interval * TicksPerSecond + MaxOverrun
    /\ processing_time' = processing_time + 1
    /\ lastOp' = NoOp
    /\ UNCHANGED <<storeVars, authVars, botVars, envVars, gaHist, monitored,
                   raisedIn, cleanDetect, aborts, addedSinceCheck, sleep_time>>

\* run(): the sleep that ends a cycle; the next cycle starts.
Sleep ==
    /\ pc = "sleep"
    /\ pc' = "check_accounts"
    /\ NoCall
    /\ UNCHANGED <<storeVars, api, failed_accounts, used_accounts, cIdx, pIdx,
                   sAttempt, all_tweets, inserted_count, envVars, monitored,
                   raisedIn, cleanDetect, aborts, addedSinceCheck>>
    /\ lastOp' = NoOp
    /\ sleep_time' = <<SleepTime(processing_time)>>
    /\ UNCHANGED processing_time

\* run(): the top-level handler: sleep(60), then initialize_api().
Recover ==
    /\ pc = "recovering"
    /\ gaPc = "idle"
    /\ pc' = "recover_init"
    /\ CallGetApi(used_accounts, {})
    /\ UNCHANGED <<storeVars, api, failed_accounts, used_accounts, cIdx, pIdx,
                   sAttempt, all_tweets, inserted_count, envVars, monitored,
                   raisedIn, cleanDetect, aborts, addedSinceCheck>>
    /\ lastOp' = NoOp
    /\ UNCHANGED timeVars

\* Mutant: one attempt more per pair (range(retries + 1)).
MoreAttempts_OneMore(n) == n + 1 <= retries

\* search_hashtag_pairs' "for attempt in range(retries)": whether another
\* attempt follows attempt number n (counted from 0).
MoreAttempts(n) == n + 1 < retries

\* get_api's end: pool.login_all() and return API(self.pool); the caller
\* goes on.
GetApiReturn ==
    /\ gaPc = "login_all"
    /\ gaPc' = "idle"
    /\ gaReturned' = TRUE
    /\ api' = "API"
    /\ CASE pc \in {"init_api", "recover_init"} ->
              /\ pc' = "check_accounts"
              /\ UNCHANGED <<cIdx, pIdx, sAttempt, all_tweets, monitored,
                             failed_accounts>>
         [] pc = "check_accounts" ->
              /\ pc' = "get_campaigns"
              /\ UNCHANGED <<cIdx, pIdx, sAttempt, all_tweets, monitored,
                             failed_accounts>>
         [] pc = "search" ->
              /\ IF MoreAttempts(sAttempt)
                 THEN /\ sAttempt' = sAttempt + 1
                      /\ UNCHANGED <<pc, cIdx, pIdx, all_tweets, monitored>>
                 ELSE EndPair(all_tweets)
              /\ UNCHANGED failed_accounts
         [] pc = "retry_failed" ->
              /\ failed_accounts' = {}
              /\ pc' = "sleep"
              /\ UNCHANGED <<cIdx, pIdx, sAttempt, all_tweets, monitored>>
    /\ UNCHANGED <<storeVars, pool, auth_failed, gaExclude, gaPreferred, gaQueue,
                   attempt, used_accounts, inserted_count, envVars, gaSweep,
                   gaAttempted, gaSucceeded, gaLoginFailed, gaDelayed,
                   gaLoginAfterDelay, gaActiveAtRead, raisedIn, cleanDetect, aborts, addedSinceCheck>>
    /\ lastOp' = IF pc = "search" /\ ~MoreAttempts(sAttempt)
                 THEN [NoOp EXCEPT !.op = "attempts_used_up", !.campaign = Campaign]
                 ELSE NoOp
    /\ UNCHANGED timeVars

\* get_api raises (its read of the account store fails); the exception
\* reaches the caller: outside run()'s try it ends run(), inside it the
\* top-level handler takes over, inside monitor_campaign the campaign's.
GetApiRaise ==
    /\ gaPc = "read"
    /\ gaPc' = "idle"
    /\ CASE pc \in {"init_api", "recover_init"} ->
              /\ pc' = "stopped"
              /\ UNCHANGED <<cIdx, pIdx, sAttempt, all_tweets, monitored, raisedIn>>
         [] pc \in {"check_accounts", "retry_failed"} ->
              /\ pc' = "recovering"
              /\ UNCHANGED <<cIdx, pIdx, sAttempt, all_tweets, monitored, raisedIn>>
         [] pc = "search" -> CampaignError
    /\ UNCHANGED <<storeVars, pool, auth_failed, gaExclude, gaPreferred, gaQueue,
                   attempt, api, failed_accounts, used_accounts, inserted_count,
                   envVars, gaHist, cleanDetect, aborts, addedSinceCheck>>
    /\ lastOp' = NoOp
    /\ UNCHANGED timeVars

\* The dashboard's Disable button of an active account (another process,
\* at any time): TwitterAuth().disable_account(username).
DashboardDisable ==
    /\ \E u \in Usernames :
          /\ is_active[u]
          /\ is_active' = Disabled(u)
          /\ account_doc' = [account_doc EXCEPT ![u] = DisableFields(@, now)]
    /\ lastOp' = NoOp
    /\ UNCHANGED <<posts, flagged_accounts, hashtag_activity, authVars, botVars,
                   envVars, gaHist, monitored, raisedIn, cleanDetect, aborts,
                   addedSinceCheck, timeVars>>

\* Time passes.
Tick ==
    /\ now < InitialNow + MaxElapsed
    /\ now' = now + 1
    /\ lastOp' = NoOp
    /\ UNCHANGED <<storeVars, authVars, botVars, feed, gaHist, monitored,
                   raisedIn, cleanDetect, aborts, addedSinceCheck>>
    /\ UNCHANGED timeVars

\* ======================================================================
\*                           specifications
\* ======================================================================

\* The responses of the platform in the whole-program specification.
SchedulerFeed == {<<>>, <<3, 4>>}

\* The state after construction (TwitterHashtagMonitor.__init__ and
\* TwitterAuth.__init__).  The account store outlives the process: each
\* stored account is active or was disabled earlier.
InitProgram ==
    /\ is_active \in [Usernames -> BOOLEAN]
    /\ account_doc = [u \in Usernames |-> NoFields]
    /\ posts = {}
    /\ flagged_accounts = {}
    /\ hashtag_activity = {}
    /\ pool = {}
    /\ auth_failed = {}
    /\ gaPc = "idle"
    /\ gaExclude = {}
    /\ gaPreferred = {}
    /\ gaQueue = <<>>
    /\ attempt = 1
    /\ pc = "init_api"
    /\ api = "None"
    /\ failed_accounts = {}
    /\ used_accounts = {}
    /\ cIdx = 1
    /\ pIdx = 1
    /\ sAttempt = 0
    /\ all_tweets = <<>>
    /\ inserted_count = 0
    /\ now = InitialNow
    /\ gaSweep = FALSE
    /\ gaAttempted = {}
    /\ gaSucceeded = {}
    /\ gaLoginFailed = {}
    /\ gaDelayed = FALSE
    /\ gaLoginAfterDelay = FALSE
    /\ gaActiveAtRead = {}
    /\ gaReturned = FALSE
    /\ monitored = {}
    /\ raisedIn = {}
    /\ cleanDetect = {}
    /\ aborts = 0
    /\ addedSinceCheck = FALSE
    /\ lastOp = NoOp
    /\ processing_time = 0
    /\ sleep_time = <<>>

Init ==
    /\ InitProgram
    /\ feed = SchedulerFeed

GetApiStep ==
    \/ GetApiRead
    \/ GetApiReactivate
    \/ InitializeAccountsBegin
    \/ InitializeLogin
    \/ GetApiDelay
    \/ AddAccountLogin
    \/ GetApiReturn
    \/ GetApiRaise

\* The steps of run() and of the acquisitions it starts.  The clock stands
\* still in this specification (the windows of the detectors are the subject
\* of the data-path specifications, where it advances), and every insert is
\* accepted or rejected as a duplicate (storage errors are in SpecDetect).
Next ==
    \/ InitializeApi
    \/ CheckNoNewAccounts
    \/ CheckNewAccounts
    \/ GetActiveCampaigns
    \/ TopLevelRaise
    \/ SearchOk
    \/ SearchExhausted
    \/ SearchHandlerRaises
    \/ SearchError
    \/ StoreTweets
    \/ DetectFlaggedAccounts
    \/ DetectFlaggedRaises
    \/ DetectActivitySurges
    \/ RetryFailedAccounts
    \/ Sleep
    \/ Recover
    \/ GetApiStep

Spec == Init /\ [][Next]_vars


\* The responses of the platform in the specifications of the data path:
\* pages of the recent single posts for the flagged-account detector; the
\* burst, the posts of the day before and the old post for the surge detector.
DetectorFeed == Pages({u \in SingleUrls : TweetDate(u) >= InitialNow - WindowHours})

SurgeFeed == {<<>>, BurstPage}
             \cup {SortedSeq({u}) : u \in {v \in SingleUrls : TweetDate(v) < InitialNow}}

\* The data path alone: the state once the initial acquisition has logged
\* every account in and the first cycle has checked for new accounts, and the
\* steps of the polling cycles in which no search runs out of accounts.
InitData ==
    /\ is_active = [u \in Usernames |-> TRUE]
    /\ account_doc = [u \in Usernames |-> LoginFields(NoFields, InitialNow)]
    /\ posts = {}
    /\ flagged_accounts = {}
    /\ hashtag_activity = {}
    /\ pool = Usernames
    /\ auth_failed = {}
    /\ gaPc = "idle"
    /\ gaExclude = {}
    /\ gaPreferred = {}
    /\ gaQueue = <<>>
    /\ attempt = 1
    /\ pc = "get_campaigns"
    /\ api = "API"
    /\ failed_accounts = {}
    /\ used_accounts = {}
    /\ cIdx = 1
    /\ pIdx = 1
    /\ sAttempt = 0
    /\ all_tweets = <<>>
    /\ inserted_count = 0
    /\ now = InitialNow
    /\ gaSweep = FALSE
    /\ gaAttempted = {}
    /\ gaSucceeded = {}
    /\ gaLoginFailed = {}
    /\ gaDelayed = FALSE
    /\ gaLoginAfterDelay = FALSE
    /\ gaActiveAtRead = {}
    /\ gaReturned = FALSE
    /\ monitored = {}
    /\ raisedIn = {}
    /\ cleanDetect = {}
    /\ aborts = 0
    /\ addedSinceCheck = FALSE
    /\ lastOp = NoOp
    /\ processing_time = 0
    /\ sleep_time = <<>>

\* The steps of the polling cycles when every insert is accepted or rejected
\* as a duplicate.
NextSurge ==
    \/ CheckNoNewAccounts
    \/ GetActiveCampaigns
    \/ SearchOk
    \/ SearchError
    \/ StoreTweets
    \/ DetectFlaggedAccounts
    \/ DetectFlaggedRaises
    \/ DetectActivitySurges
    \/ RetryFailedAccounts
    \/ Sleep
    \/ Tick

\* The same with storage errors.
NextDetect ==
    \/ NextSurge
    \/ StoreTweetsError

InitDetect ==
    /\ InitData
    /\ feed = DetectorFeed

InitSurge ==
    /\ InitData
    /\ feed = SurgeFeed

SpecDetect == InitDetect /\ [][NextDetect]_vars

SpecSurge == InitSurge /\ [][NextSurge]_vars

\* The initial pool acquisition of run(), with an operator who disables
\* accounts on the dashboard while it runs.
NextPool ==
    \/ InitializeApi
    \/ GetApiStep
    \/ DashboardDisable

SpecPool == Init /\ [][NextPool]_vars

\* The timing of the cycles: polling cycles whose searches find nothing,
\* with the time their processing takes.
TimingFeed == {<<>>}

InitTiming ==
    /\ InitData
    /\ feed = TimingFeed

NextTiming ==
    \/ CheckNoNewAccounts
    \/ GetActiveCampaigns
    \/ SearchOk
    \/ RetryFailedAccounts
    \/ Sleep
    \/ Work

SpecTiming == InitTiming /\ [][NextTiming]_vars


\* ======================================================================
\*                              properties
\* ======================================================================

MonitorPcs == {"search", "store", "detect_flagged", "detect_surges"}

AllCampaigns == SeqToSet(Campaigns)

\* C1: when monitor_campaign raises for a campaign, the scheduler stays in
\* the cycle's for loop (it does not enter the top-level recovery path), the
\* campaign that follows it in the list is monitored at once, and the loop
\* only ends when every campaign of the list has been monitored.
C1_CampaignIsolation ==
    /\ raisedIn # {} => pc \in MonitorPcs \cup {"retry_failed"}
    /\ raisedIn \subseteq monitored
    /\ \A i \in 1..(Len(Campaigns) - 1) :
          Campaigns[i] \in raisedIn => Campaigns[i + 1] \in monitored
    /\ (pc = "retry_failed" /\ gaPc = "idle") => monitored = AllCampaigns

\* C1's case: the first campaign raised and the second one is being
\* monitored in the same cycle.
C1_Witness ==
    /\ Campaigns[1] \in raisedIn
    /\ pc \in MonitorPcs
    /\ Campaign = Campaigns[2]

\* C2: run() never stops because of an error: whatever raises, the scheduler
\* is never in the state it has when an exception has left run().
C2_RunNeverStops == pc # "stopped"

\* C3: there is at most one stored post per URL, and store_tweets keeps every
\* stored post as it is, inserts only posts whose URL was not stored, returns
\* the number of posts it added, and hands over to the detectors (no
\* exception leaves it).
C3_StoreIdempotent ==
    /\ [](\A p, q \in posts : p.url = q.url => p = q)
    /\ [][(pc = "store" /\ pc' # "store") =>
            /\ posts \subseteq posts'
            /\ \A p \in posts' \ posts : ~(\E q \in posts : q.url = p.url)
            /\ inserted_count' = Cardinality(posts') - Cardinality(posts)
            /\ pc' = "detect_flagged"]_vars

\* C3's case: store_tweets has just returned from a batch all of whose URLs
\* were already stored.
C3_Witness ==
    /\ lastOp.op = "store_tweets"
    /\ inserted_count = 0
    /\ posts # {}

\* The posts of campaign c by author a that are unprocessed and timestamped
\* within the trailing hour.
RecentUnprocessed(c, a) ==
    {p \in posts : /\ p.campaign_id = c
                   /\ p.username = a
                   /\ p.processed = FALSE
                   /\ now - p.timestamp <= 1}

PostAuthors == {TweetUser(u) : u \in Urls}

\* C4: a completed detect_flagged_accounts(c) run on a campaign without
\* FlaggedAccount records leaves a record (a, c) exactly for the authors a
\* with at least 2 unprocessed posts of c in the trailing hour, with
\* post_count that number and posts those posts' ids.
C4_FlaggingThreshold ==
    [][(/\ pc = "detect_flagged"
        /\ pc' = "detect_surges"
        /\ ~(\E r \in flagged_accounts : r.campaign_id = Campaign))
       =>
       /\ \A a \in PostAuthors :
             (\E r \in flagged_accounts' : r.username = a /\ r.campaign_id = Campaign)
             <=> Cardinality(RecentUnprocessed(Campaign, a)) >= 2
       /\ \A r \in flagged_accounts' :
             r.campaign_id = Campaign =>
                /\ r.post_count = Cardinality(RecentUnprocessed(Campaign, r.username))
                /\ r.posts = {p.id : p \in RecentUnprocessed(Campaign, r.username)}
      ]_vars

\* C4's case: one run has matched 1 post by A and 2 posts by B and has left
\* a single record, for B, with post_count 2 and 2 post ids.
C4_Witness ==
    /\ lastOp.op = "detect_flagged_accounts"
    /\ Cardinality(lastOp.matched) = 3
    /\ Cardinality({p \in posts : p.id \in lastOp.matched /\ p.username = "A"}) = 1
    /\ Cardinality({p \in posts : p.id \in lastOp.matched /\ p.username = "B"}) = 2
    /\ \E r \in flagged_accounts :
          /\ flagged_accounts = {r}
          /\ r.username = "B"
          /\ r.post_count = 2
          /\ Cardinality(r.posts) = 2

\* C5: a completed detect_flagged_accounts(c) run that follows a completed
\* run for c with no post inserted for c in between matches no post and
\* leaves flagged_accounts as it was.
C5_DetectTwice ==
    [][(/\ pc = "detect_flagged"
        /\ pc' = "detect_surges"
        /\ Campaign \in cleanDetect)
       =>
       /\ \A a \in PostAuthors : RecentUnprocessed(Campaign, a) = {}
       /\ flagged_accounts' = flagged_accounts
      ]_vars

\* C5's case: such a second run has just completed, with a record present.
C5_Witness ==
    /\ lastOp.op = "detect_flagged_accounts"
    /\ lastOp.repeat
    /\ \E r \in flagged_accounts : r.campaign_id = lastOp.campaign

\* The posts of campaign c carrying every tag of the pair on day d, among
\* those of the trailing 7 days.
PostsOnDay(c, pair, d) ==
    {p \in posts : /\ p.campaign_id = c
                   /\ \A i \in 1..Len(pair) : pair[i] \in p.hashtags
                   /\ now - p.timestamp <= 7 * 24
                   /\ p.timestamp \div 24 = d}

\* The most recent day of the trailing 7 days, and the days of the window.
Today == now \div 24
WindowDays == (Today - 7)..Today

\* C6: when detect_activity_surges(c) has run, a pair has a surge record for
\* its most recent day with posts exactly when that day has at least 20
\* posts and the day before it has none; the record carries the day's post
\* count and unique-author count.
C6_SurgeRule ==
    lastOp.op = "detect_activity_surges" =>
       \A k \in 1..Len(HashtagPairs(lastOp.campaign)) :
          LET c == lastOp.campaign
              pair == HashtagPairs(c)[k]
              days == {d \in WindowDays : PostsOnDay(c, pair, d) # {}}
          IN days # {} =>
                LET d == Max(days)
                    on == PostsOnDay(c, pair, d)
                IN (Cardinality(on) >= 20 /\ PostsOnDay(c, pair, d - 1) = {})
                   <=> \E r \in hashtag_activity :
                          /\ r.campaign_id = c
                          /\ r.hashtag_pair = pair
                          /\ r.date = d
                          /\ r.is_surge
                          /\ r.post_count = Cardinality(on)
                          /\ r.unique_accounts = Cardinality({p.username : p \in on})

\* C7: when an acquisition in which some logins failed and at least one
\* succeeded returns, the pool holds every account whose login succeeded
\* (so at least one) and every account whose login failed is in
\* TwitterAuth.failed_accounts.
C7_PartialAcquisition ==
    (gaReturned /\ gaLoginFailed # {} /\ gaSucceeded # {}) =>
       /\ gaSucceeded \subseteq pool
       /\ Cardinality(pool) >= 1
       /\ gaLoginFailed \subseteq auth_failed

\* C7's case: an acquisition with a failed and a successful login has returned.
C7_Witness == gaReturned /\ gaLoginFailed # {} /\ gaSucceeded # {}

\* C8: in an acquisition that found no active account, every account is
\* active before any login is attempted, the logins of the retry are only
\* attempted once the fixed delay has elapsed, and the client returned has no
\* account only if every login of the retry failed.
C8_ReactivationRetry ==
    /\ gaPc \in {"reactivate", "initialize_accounts"} => gaAttempted = {}
    /\ gaPc = "initialize_accounts" => \A u \in Usernames : is_active[u]
    /\ (gaSweep /\ gaAttempted # {}) => gaDelayed
    /\ (gaSweep /\ gaReturned /\ pool = {}) => gaSucceeded = {}

\* C9: no login is attempted for an account named in exclude_accounts, and
\* the client get_api returns is bound to no such account.
C9_ExcludedNeverUsed ==
    /\ gaAttempted \cap gaExclude = {}
    /\ gaReturned => pool \cap gaExclude = {}

\* C10: the client get_api returns is bound to exactly the accounts whose
\* login succeeded during that acquisition.
C10_PoolRebuilt == gaReturned => pool = gaSucceeded

\* C11: a capacity-exhaustion failure adds one account to both the used and
\* the failed set and re-acquires the pool excluding the used set; when that
\* acquisition returns, the same group is searched again if the client has
\* an account that is not used up, and the group is left if it has none.
C11_RotationUntilEmpty ==
    [][/\ (pc = "search" /\ gaPc = "idle" /\ gaPc' = "read") =>
             /\ \E u \in Usernames :
                   /\ used_accounts' = used_accounts \cup {u}
                   /\ failed_accounts' = failed_accounts \cup {u}
             /\ gaExclude' = used_accounts'
       /\ (pc = "search" /\ gaPc = "login_all" /\ gaPc' = "idle") =>
             IF pool' \ used_accounts' # {}
             THEN pc' = "search" /\ cIdx' = cIdx /\ pIdx' = pIdx
             ELSE ~(pc' = "search" /\ cIdx' = cIdx /\ pIdx' = pIdx)
      ]_vars

\* C12: monitor_campaign returns normally (no exception) only from
\* detect_activity_surges: both detectors have run for the campaign,
\* whatever its search returned.
C12_DetectorsAlwaysRun ==
    [][(/\ pc \in MonitorPcs
        /\ (cIdx' # cIdx \/ pc' = "retry_failed")
        /\ Campaign \notin raisedIn')
       => pc = "detect_surges"]_vars

\* C13: when detect_flagged_accounts(c) has completed, every post its window
\* query matched is processed, whether or not its author was flagged; a
\* processed post stays processed, so no later run matches it again.
C13_MatchedAreProcessed ==
    /\ [](lastOp.op = "detect_flagged_accounts" =>
            \A p \in posts : p.id \in lastOp.matched => p.processed)
    /\ [][/\ \A p \in posts : p.processed =>
                  \E q \in posts' : q.id = p.id /\ q.processed
          /\ (pc = "detect_flagged" /\ pc' # "detect_flagged") =>
                  \A p \in WindowMatch(posts, Campaign, now) : ~p.processed
         ]_vars

\* C13's case: a completed run matched a post whose author did not qualify
\* (no record for the author) and the post is processed.
C13_Witness ==
    /\ lastOp.op = "detect_flagged_accounts"
    /\ \E p \in posts :
          /\ p.id \in lastOp.matched
          /\ p.processed
          /\ ~(\E r \in flagged_accounts :
                  r.username = p.username /\ r.campaign_id = p.campaign_id)

\* C14: an account whose login fails for good does not end the acquisition:
\* get_api goes on to the remaining candidates and returns; when it returns
\* (without the reactivation sweep) a login was attempted for every
\* candidate, each attempted account either succeeded or failed, and the
\* client is bound to those that succeeded.
C14_FailureIsolated ==
    /\ [](gaReturned =>
            /\ ~gaSweep => gaAttempted = gaActiveAtRead \ gaExclude
            /\ gaSucceeded \cup gaLoginFailed = gaAttempted
            /\ gaSucceeded \subseteq pool)
    /\ [][(gaLoginFailed # gaLoginFailed' /\ gaLoginFailed \subseteq gaLoginFailed') =>
            /\ gaPc' \in {"add_account", "init_login", "delay", "login_all"}
            /\ (gaQueue' # <<>>) => gaPc' \in {"add_account", "init_login"}
            /\ pc' = pc
         ]_vars

\* C14's case: the first candidate failed all its attempts, the second was
\* still logged in, and the acquisition has returned.
C14_Witness ==
    /\ gaReturned
    /\ ~gaSweep
    /\ AccountOrder[1] \in gaLoginFailed
    /\ AccountOrder[2] \in gaSucceeded
    /\ AccountOrder[2] \in pool

\* C15: the attempt number of a login never exceeds max_login_attempts; the
\* accounts waiting in an acquisition's queue are distinct and none of them
\* has already succeeded or failed in it; an account is recorded as failed
\* exactly on its last attempt and then leaves the queue; and every login
\* step either shortens the queue or uses up one more attempt, so the
\* acquisition ends after at most max_login_attempts steps per account.
C15_BoundedAttempts ==
    /\ [](/\ attempt \in 1..max_login_attempts
          /\ \A i, j \in 1..Len(gaQueue) : gaQueue[i] = gaQueue[j] => i = j
          /\ \A i \in 1..Len(gaQueue) :
                gaQueue[i] \notin gaSucceeded \cup gaLoginFailed)
    /\ [][/\ (gaLoginFailed # gaLoginFailed' /\ gaLoginFailed \subseteq gaLoginFailed') =>
               /\ attempt = max_login_attempts
               /\ gaLoginFailed' = gaLoginFailed \cup {Head(gaQueue)}
               /\ Head(gaQueue) \in auth_failed'
               /\ gaQueue' = Tail(gaQueue)
          /\ (gaPc \in {"add_account", "init_login"} /\ gaAttempted' # {}
                 /\ <<gaQueue, attempt>> # <<gaQueue', attempt'>>) =>
               \/ Len(gaQueue') < Len(gaQueue)
               \/ gaQueue' = gaQueue /\ attempt' = attempt + 1
         ]_vars

\* C15's case: an acquisition has returned after every account used up all
\* its attempts.
C15_Witness ==
    /\ gaReturned
    /\ gaLoginFailed = Usernames
    /\ attempt = 1

\* The position of account u in the store's order.
StoreIndex(u) == CHOOSE i \in 1..Len(AccountOrder) : AccountOrder[i] = u

\* C17: the queue get_api builds from the active accounts it read holds each
\* candidate (active, not excluded) exactly once, every preferred account
\* before every other one, and accounts of the same kind in the store's
\* order; and in every acquisition logins are attempted in that order: once
\* a login was attempted for an account that is not preferred, no preferred
\* account is still waiting for its login.
C17_PreferredFirst ==
    /\ [][(gaPc = "read" /\ gaPc' \in {"add_account", "login_all"}) =>
            /\ SeqToSet(gaQueue') = SeqToSet(ActiveAccounts) \ gaExclude
            /\ \A i, j \in 1..Len(gaQueue') :
                  /\ gaQueue'[i] = gaQueue'[j] => i = j
                  /\ (gaQueue'[i] \notin gaPreferred /\ gaQueue'[j] \in gaPreferred)
                        => j < i
                  /\ (i < j /\ (gaQueue'[i] \in gaPreferred <=> gaQueue'[j] \in gaPreferred))
                        => StoreIndex(gaQueue'[i]) < StoreIndex(gaQueue'[j])
         ]_vars
    /\ []((gaPreferred # {} /\ gaAttempted \ gaPreferred # {}) =>
            \A i \in 1..Len(gaQueue) : gaQueue[i] \notin gaPreferred)

\* C18: at the end of the campaign sweep, a non-empty failed set makes
\* retry_failed_accounts re-acquire the pool with the failed accounts
\* preferred; when that acquisition returns a login was attempted for each
\* of them; and the failed set is empty when the cycle reaches its sleep.
C18_FailedRetried ==
    /\ [][(/\ pc = "retry_failed" /\ gaPc = "idle" /\ failed_accounts # {}
            /\ <<pc, gaPc>>' # <<pc, gaPc>>) =>
            (gaPc' = "read" /\ gaPreferred' = failed_accounts)
         ]_vars
    /\ [][(pc = "retry_failed" /\ gaPc = "login_all" /\ gaPc' = "idle") =>
            gaPreferred \subseteq gaAttempted
         ]_vars
    /\ [](pc = "sleep" => failed_accounts = {})

\* C19: when initialize_api has returned to run() (the initial call or the
\* one of the top-level handler), the failed set and the used set are empty.
C19_SetsResetOnInit ==
    (gaReturned /\ gaPc = "idle" /\ pc = "check_accounts") =>
       failed_accounts = {} /\ used_accounts = {}

\* C16: a successful login of add_account stores the account as active with
\* the cookies of that login and last_used set to the time of the login; a
\* login that failed for good stores it as inactive with disabled_at set to
\* that time; and when get_api returns without the reactivation sweep every
\* account it attempted is stored that way.
C16_StoredAfterLogin ==
    /\ [][(gaPc = "add_account" /\ gaSucceeded' # gaSucceeded) =>
            LET u == Head(gaQueue)
            IN /\ is_active'[u]
               /\ account_doc'[u].cookies = now
               /\ account_doc'[u].last_used = now
         ]_vars
    /\ [][(gaPc = "add_account" /\ gaLoginFailed' # gaLoginFailed) =>
            LET u == Head(gaQueue)
            IN /\ ~is_active'[u]
               /\ account_doc'[u].disabled_at = now
         ]_vars
    /\ []((gaReturned /\ ~gaSweep) =>
            /\ \A u \in gaSucceeded :
                  /\ is_active[u]
                  /\ account_doc[u].cookies = now
                  /\ account_doc[u].last_used = now
            /\ \A u \in gaLoginFailed :
                  /\ ~is_active[u]
                  /\ account_doc[u].disabled_at = now)

\* C16's case: an acquisition without the sweep has returned after one
\* account logged in and another failed.
C16_Witness ==
    /\ gaReturned
    /\ ~gaSweep
    /\ \E u, v \in Usernames :
          /\ u \in gaSucceeded /\ is_active[u] /\ account_doc[u].last_used = now
          /\ v \in gaLoginFailed /\ ~is_active[v] /\ account_doc[v].disabled_at = now

\* C20: a check_for_new_accounts that follows the addition of an account to
\* the account store (add_account has written an added_at since the last
\* check) clears the failed and the used set and starts a pool acquisition;
\* a check with no account added leaves the sets and the pool unchanged and
\* starts none.
C20_NewAccountsDetected ==
    [][(pc = "check_accounts" /\ gaPc = "idle" /\ pc' # "recovering"
          /\ <<pc, gaPc>>' # <<pc, gaPc>>) =>
         IF addedSinceCheck
         THEN /\ failed_accounts' = {}
              /\ used_accounts' = {}
              /\ gaPc' = "read"
         ELSE /\ failed_accounts' = failed_accounts
              /\ used_accounts' = used_accounts
              /\ pool' = pool
              /\ gaPc' = "idle"
      ]_vars

\* C21: a login attempt that ends with the credential rejected is the last
\* one for its account in the acquisition (the account leaves the queue) and
\* leaves the account stored inactive; an attempt that times out is repeated
\* while attempts remain, and on the last attempt is treated the same way.
C21_RejectedNotRetried ==
    [][/\ (gaPc \in {"add_account", "init_login"} /\ lastOp'.op = "credential_rejected") =>
             /\ ~is_active'[Head(gaQueue)]
             /\ gaQueue' = Tail(gaQueue)
       /\ (gaPc \in {"add_account", "init_login"} /\ lastOp'.op = "timeout") =>
             IF attempt < max_login_attempts
             THEN gaQueue' = gaQueue /\ attempt' = attempt + 1
             ELSE ~is_active'[Head(gaQueue)] /\ gaQueue' = Tail(gaQueue)
      ]_vars

\* C22: a search that fails with another error than capacity exhaustion
\* leaves the used set, the failed set and the pool as they are, starts no
\* acquisition and raises nothing; the engine goes on with the campaign's
\* next group, or ends the campaign's search after the last one; and within
\* a cycle the searches only move forward through the groups, so the group
\* left is not searched again.
C22_OtherErrorSkipsGroup ==
    /\ [][lastOp'.op = "search_error" =>
            /\ used_accounts' = used_accounts
            /\ failed_accounts' = failed_accounts
            /\ pool' = pool
            /\ gaPc' = "idle"
            /\ raisedIn' = raisedIn
            /\ IF pIdx < Len(HashtagPairs(Campaigns[cIdx]))
               THEN pc' = "search" /\ cIdx' = cIdx /\ pIdx' = pIdx + 1
               ELSE ~(pc' = "search" /\ cIdx' = cIdx)
         ]_vars
    /\ [][/\ (pc = "search" /\ pc' = "search") =>
                \/ cIdx' > cIdx
                \/ cIdx' = cIdx /\ pIdx' >= pIdx
          /\ (pc \in {"store", "detect_flagged", "detect_surges"} /\ pc' = "search") =>
                cIdx' > cIdx
         ]_vars

\* C22's case: the search of a campaign's first group has just failed with
\* another error and its second group is the one to be searched.
C22_Witness ==
    /\ lastOp.op = "search_error"
    /\ pc = "search"
    /\ cIdx = 1
    /\ pIdx = 2
    /\ sAttempt = 0

\* C23: store_tweets returns normally whatever inserts fail with another
\* storage error; every tweet of the batch whose insert did not fail is
\* stored when it returns (the loop went on after each failure), no stored
\* post is lost, and the count returned is the number of posts added.
C23_StoreErrorSkipsOne ==
    [][(pc = "store" /\ pc' # "store") =>
         /\ pc' = "detect_flagged"
         /\ lastOp'.op = "store_tweets"
         /\ \A i \in 1..Len(all_tweets) :
               i \notin lastOp'.errors => \E p \in posts' : p.url = all_tweets[i].url
         /\ posts \subseteq posts'
         /\ inserted_count' = Cardinality(posts' \ posts)
      ]_vars

\* C23's case: the first insert of a batch failed with another error and a
\* later tweet of the batch was inserted.
C23_Witness ==
    /\ lastOp.op = "store_tweets"
    /\ lastOp.errors = {1}
    /\ inserted_count >= 1

\* C24: a cycle starts with the first group of the first campaign of the
\* list; the campaign being processed only changes to the next one of the
\* list (or the sweep ends after the last one); within a campaign the group
\* being searched only changes to the next configured one; store_tweets only
\* starts after the search of the campaign's last group, detect_flagged_accounts
\* only after store_tweets and detect_activity_surges only after
\* detect_flagged_accounts, all for the same campaign.
C24_CycleOrder ==
    [][/\ (pc = "get_campaigns" /\ pc' # pc /\ pc' # "recovering") =>
             pc' = "search" /\ cIdx' = 1 /\ pIdx' = 1
       /\ (pc \in MonitorPcs /\ cIdx' # cIdx) =>
             \/ cIdx' = cIdx + 1 /\ pc' = "search" /\ pIdx' = 1
             \/ cIdx = Len(Campaigns) /\ pc' = "retry_failed"
       /\ (pc = "search" /\ pc' = "search" /\ cIdx' = cIdx /\ pIdx' # pIdx) =>
             pIdx' = pIdx + 1
       /\ (pc' = "store" /\ pc # "store") =>
             pc = "search" /\ cIdx' = cIdx /\ pIdx = Len(HashtagPairs(Campaigns[cIdx]))
       /\ (pc' = "detect_flagged" /\ pc # "detect_flagged") =>
             pc = "store" /\ cIdx' = cIdx
       /\ (pc' = "detect_surges" /\ pc # "detect_surges") =>
             pc = "detect_flagged" /\ cIdx' = cIdx
      ]_vars

\* C24's case: the second campaign's detector is about to run on posts
\* ingested for it, after the first campaign was ingested and its detector
\* has run, in the same cycle.
C24_Witness ==
    /\ pc = "detect_flagged"
    /\ cIdx = 2
    /\ monitored = AllCampaigns
    /\ \E p \in posts : p.campaign_id = Campaigns[1] /\ p.processed
    /\ \E p \in posts : p.campaign_id = Campaigns[2] /\ ~p.processed

\* C25: the sleep that ends a cycle is never negative, is 0 when the
\* processing time is at least the poll interval, and when the processing
\* time is at most the poll interval the two add up to the poll interval.
C25_IntervalPaced ==
    sleep_time # <<>> =>
       /\ sleep_time[1] >= 0
       /\ processing_time >= poll_interval * TicksPerSecond => sleep_time[1] = 0
       /\ processing_time <= poll_interval * TicksPerSecond =>
             processing_time + sleep_time[1] * TicksPerSecond
                = poll_interval * TicksPerSecond

\* C26: a stored account only goes from inactive to active in the bulk
\* reactivation sweep (reactivate_all_accounts, called by get_api and by
\* initialize_accounts); in particular the login of an account that was
\* disabled meanwhile does not make it active again.
C26_ActivatedOnlyBySweep ==
    [][\A u \in Usernames :
          (~is_active[u] /\ is_active'[u]) =>
             gaPc \in {"reactivate", "initialize_accounts"}
      ]_vars

\* C27: the post_count of every FlaggedAccount is the number of post ids in
\* its posts set, whatever detection runs (completed or aborted) there were.
C27_NoDoubleCount ==
    \A r \in flagged_accounts : r.post_count = Cardinality(r.posts)

\* C28: a stored post is never removed, and a step changes a stored post
\* only by setting its processed flag from false to true, which only
\* detect_flagged_accounts does; so a processed post stays processed, also
\* when its URL is ingested again.
C28_ProcessedOneWay ==
    [][\A p \in posts :
          \/ p \in posts'
          \/ /\ pc = "detect_flagged"
             /\ ~p.processed
             /\ [p EXCEPT !.processed = TRUE] \in posts'
             /\ ~(\E q \in posts' : q.id = p.id /\ ~q.processed)
      ]_vars

\* C28's case: store_tweets has just returned from a batch of stored URLs
\* (nothing inserted, no insert failed) while every stored post is processed.
C28_Witness ==
    /\ lastOp.op = "store_tweets"
    /\ lastOp.errors = {}
    /\ inserted_count = 0
    /\ posts # {}
    /\ \A p \in posts : p.processed

\* C29: no two FlaggedAccount records have the same username and campaign
\* id, and every step keeps a record for each (username, campaign id) that
\* had one.
C29_FlaggedUniqueAndKept ==
    /\ [](\A r, t \in flagged_accounts :
             (r.username = t.username /\ r.campaign_id = t.campaign_id) => r = t)
    /\ [][\A r \in flagged_accounts :
             \E t \in flagged_accounts' :
                t.username = r.username /\ t.campaign_id = r.campaign_id
         ]_vars

\* C29's case: a completed run has flagged an author who already had a
\* record for the campaign (the record counts more posts than the run
\* matched).
C29_Witness ==
    /\ lastOp.op = "detect_flagged_accounts"
    /\ \E r \in flagged_accounts :
          /\ r.campaign_id = lastOp.campaign
          /\ r.posts \subseteq lastOp.matched
          /\ r.post_count > Cardinality(lastOp.matched)

\* C30: a completed detect_flagged_accounts(c) run that flags an author (at
\* least 2 unprocessed posts of c in the trailing hour) who has a record for
\* c leaves the record's first_detected as it was, adds the number of those
\* posts to its post_count and their ids to its posts.
C30_RepeatSight ==
    [][(pc = "detect_flagged" /\ pc' = "detect_surges") =>
         \A r \in flagged_accounts :
            (/\ r.campaign_id = Campaign
             /\ Cardinality(RecentUnprocessed(Campaign, r.username)) >= 2)
            =>
            \E t \in flagged_accounts' :
               /\ t.username = r.username
               /\ t.campaign_id = r.campaign_id
               /\ t.first_detected = r.first_detected
               /\ t.post_count =
                     r.post_count + Cardinality(RecentUnprocessed(Campaign, r.username))
               /\ t.posts =
                     r.posts \cup {p.id : p \in RecentUnprocessed(Campaign, r.username)}
      ]_vars

\* C30's case: a completed run has flagged, with a post later than the
\* record's first_detected among the matched ones, an author whose record
\* already counted posts.
C30_Witness ==
    /\ lastOp.op = "detect_flagged_accounts"
    /\ \E r \in flagged_accounts :
          /\ r.campaign_id = lastOp.campaign
          /\ r.post_count >= 2 * FlagThreshold
          /\ \E p \in posts : /\ p.id \in lastOp.matched
                              /\ p.id \in r.posts
                              /\ p.timestamp > r.first_detected

\* The days of the trailing 7 days on which campaign c has posts carrying
\* every tag of the pair.
DaysWithPosts(c, pair) == {d \in WindowDays : PostsOnDay(c, pair, d) # {}}

\* The pair's series has at least two day entries and its newest two satisfy
\* the surge rule (at least 20 posts on the newest, 0 on the one before it).
Surging(c, pair) ==
    LET days == DaysWithPosts(c, pair)
    IN /\ Cardinality(days) >= 2
       /\ Cardinality(PostsOnDay(c, pair, Max(days))) >= 20
       /\ Cardinality(PostsOnDay(c, pair, Max(days \ {Max(days)}))) = 0

\* C31: detect_activity_surges(c) leaves every HashtagActivity record as it
\* is, except that it may create or replace the record of a group of c whose
\* series has at least two day entries with the newest two satisfying the
\* surge rule.
C31_OnlyOnSurge ==
    [][(pc = "detect_surges" /\ pc' # "detect_surges") =>
         /\ \A r \in hashtag_activity' \ hashtag_activity :
               /\ r.campaign_id = Campaign
               /\ \E k \in 1..Len(HashtagPairs(Campaign)) :
                     /\ r.hashtag_pair = HashtagPairs(Campaign)[k]
                     /\ Surging(Campaign, r.hashtag_pair)
         /\ \A r \in hashtag_activity \ hashtag_activity' :
               /\ r.campaign_id = Campaign
               /\ Surging(Campaign, r.hashtag_pair)
      ]_vars

\* C31's case: detect_activity_surges has run for a campaign with a group
\* whose series has two day entries, the newest with at least 20 posts and
\* the one before it with posts (not surging), and there is no record.
C31_Witness ==
    /\ lastOp.op = "detect_activity_surges"
    /\ \E k \in 1..Len(HashtagPairs(lastOp.campaign)) :
          LET days == DaysWithPosts(lastOp.campaign, HashtagPairs(lastOp.campaign)[k])
          IN /\ Cardinality(days) >= 2
             /\ Cardinality(PostsOnDay(lastOp.campaign,
                                       HashtagPairs(lastOp.campaign)[k], Max(days))) >= 20
    /\ hashtag_activity = {}

\* C32: a completed detect_flagged_accounts(c) run leaves as it is every
\* unprocessed post of c whose timestamp is older than the trailing hour
\* (a post its window query did not match).
C32_OnlyMatchedMarked ==
    [][(pc = "detect_flagged" /\ pc' = "detect_surges") =>
         \A p \in posts :
            (p.campaign_id = Campaign /\ ~p.processed /\ now - p.timestamp > 1)
               => p \in posts'
      ]_vars

\* C33: in every state, for every group of every campaign, each day entry of
\* the series detect_activity_surges builds has post_count at least 1, the
\* series has an entry exactly for the days of the window that have posts,
\* and with two entries or more the entry taken as the previous day is the
\* latest day before the newest one that has posts.
C33_NoEmptyDayEntry ==
    \A i \in 1..Len(Campaigns) :
       \A k \in 1..Len(HashtagPairs(Campaigns[i])) :
          LET c == Campaigns[i]
              pair == HashtagPairs(c)[k]
              matched == SurgeMatch(posts, c, pair, now)
              days == SeriesDays(matched)
          IN /\ \A d \in days : DayEntry(matched, d).post_count >= 1
             /\ days = DaysWithPosts(c, pair)
             /\ Cardinality(days) >= 2 =>
                   /\ PreviousDay(days) < CurrentDay(days)
                   /\ PostsOnDay(c, pair, PreviousDay(days)) # {}
                   /\ \A d \in (PreviousDay(days) + 1)..(CurrentDay(days) - 1) :
                         PostsOnDay(c, pair, d) = {}

\* C33's case: detect_activity_surges has run for a group whose newest day
\* has posts, the calendar day before it has none, and an earlier day of the
\* window has posts.
C33_Witness ==
    /\ lastOp.op = "detect_activity_surges"
    /\ \E k \in 1..Len(HashtagPairs(lastOp.campaign)) :
          LET days == SeriesDays(SurgeMatch(posts, lastOp.campaign,
                                            HashtagPairs(lastOp.campaign)[k], now))
          IN /\ Cardinality(days) >= 2
             /\ PreviousDay(days) < CurrentDay(days) - 1

\* C34: the number of the search attempt in progress for a group never
\* exceeds 3; it only changes for the same group by going up by one, when
\* the re-acquisition after a capacity exhaustion returns; and when that
\* happens after the third attempt the group is left.  (With the groups only
\* moving forward, C22, a call makes at most 3 searches and 3
\* re-acquisitions per group.)
C34_BoundedSearchAttempts ==
    /\ [](sAttempt + 1 <= 3)
    /\ [][/\ (/\ pc = "search" /\ pc' = "search"
              /\ cIdx' = cIdx /\ pIdx' = pIdx
              /\ sAttempt' # sAttempt) =>
                (sAttempt' = sAttempt + 1 /\ gaPc = "login_all" /\ gaPc' = "idle")
          /\ (pc = "search" /\ gaPc = "login_all" /\ gaPc' = "idle") =>
                IF sAttempt + 1 < 3
                THEN pc' = "search" /\ cIdx' = cIdx /\ pIdx' = pIdx
                     /\ sAttempt' = sAttempt + 1
                ELSE ~(pc' = "search" /\ cIdx' = cIdx /\ pIdx' = pIdx)
         ]_vars

\* C34's case: all three searches for a campaign's first group reported
\* capacity exhaustion; the third re-acquisition has returned and the second
\* group is the one to be searched.
C34_Witness ==
    /\ lastOp.op = "attempts_used_up"
    /\ pc = "search"
    /\ pIdx = 2
    /\ sAttempt = 0

\* C35: in every state in which a polling cycle starts (the loop of run is
\* at check_for_new_accounts and no acquisition is in progress), the used
\* set and the failed set of the scheduler are equal.
C35_UsedEqualsFailedAtCycleStart ==
    (pc = "check_accounts" /\ gaPc = "idle") => used_accounts = failed_accounts

\* C36: for every flagged-account record, in every state,
\* first_detected <= last_detected.
C36_FirstNotAfterLast ==
    \A r \in flagged_accounts : r.first_detected <= r.last_detected

\* C37: a stored post keeps its id, URL and campaign_id in every step;
\* store_tweets for a campaign leaves the posts of other campaigns as they
\* are and counts as inserted only the posts it added for its own campaign
\* under a URL that was not stored; and the posts matched by the
\* flagged-account query and by the surge queries of a campaign all belong
\* to that campaign.
C37_OwnerKept ==
    /\ [](lastOp.op \in {"detect_flagged_accounts", "detect_activity_surges"} =>
            \A p \in posts : p.id \in lastOp.matched => p.campaign_id = lastOp.campaign)
    /\ [][/\ \A p \in posts :
                \E q \in posts' : /\ q.id = p.id
                                  /\ q.url = p.url
                                  /\ q.campaign_id = p.campaign_id
          /\ (pc = "store" /\ pc' # "store") =>
                /\ \A p \in posts : p.campaign_id # Campaign => p \in posts'
                /\ inserted_count' =
                      Cardinality({p \in posts' : /\ p.campaign_id = Campaign
                                                  /\ ~UrlTaken(posts, p.url)})
         ]_vars

\* C37's case: campaign 2's search returned only URLs that are stored under
\* campaign 1 (every stored post belongs to campaign 1, and store_tweets for
\* campaign 2 has just returned 0 without an error), and one of
\* campaign 1's posts is unprocessed and inside the trailing hour when
\* campaign 2's detectors are about to run.
C37_Witness ==
    /\ lastOp.op = "store_tweets"
    /\ lastOp.campaign = 2
    /\ lastOp.errors = {}
    /\ inserted_count = 0
    /\ pc = "detect_flagged"
    /\ \A p \in posts : p.campaign_id = 1
    /\ \E p \in posts : ~p.processed /\ p.timestamp >= now - WindowHours

\* C38: a failed login attempt number k that is not the last one
\* (k < max_login_attempts) is followed by a wait of login_retry_delay * k
\* seconds, 10 after the first and 20 after the second, and then by attempt
\* k + 1; the last failed attempt is followed by no wait and ends the
\* account's attempts.
C38_LinearBackoff ==
    [][lastOp'.op \in (LoginOutcomes \ {"ok"}) =>
         /\ gaPc \in {"init_login", "add_account"}
         /\ IF attempt < max_login_attempts
            THEN /\ lastOp'.delay = login_retry_delay * attempt
                 /\ lastOp'.delay = (IF attempt = 1 THEN 10 ELSE 20)
                 /\ attempt' = attempt + 1
            ELSE /\ lastOp'.delay = 0
                 /\ attempt' = 1
      ]_vars

\* C38's case: the second attempt for an account has just failed and the
\* third is to follow after a wait of 20 seconds.
C38_Witness ==
    /\ lastOp.op \in (LoginOutcomes \ {"ok"})
    /\ lastOp.delay = 20
    /\ attempt = max_login_attempts

====
